---- MODULE Spec2Model ----
(***************************************************************************)
(* Alduin: a single-threaded command-line agent loop (src/alduin/main.py)  *)
(* together with the rendering functions it calls (src/alduin/ui.py) and   *)
(* the flavour-text pool (src/alduin/personality.py).                      *)
(*                                                                         *)
(* Text is modelled as a sequence of fragments: user input, file contents  *)
(* and displayed tool results are sequences of one-character strings;      *)
(* a formatted message (an f-string) is the sequence of its literal and    *)
(* interpolated parts.  The console is the sequence of panels printed so   *)
(* far.  The banner's random start-up quote is not recorded (no property   *)
(* below reads it).                                                        *)
(***************************************************************************)
EXTENDS Integers, Sequences, FiniteSets, TLC

VARIABLES
    pc,            \* control point of the process
    api_key,       \* os.getenv("ANTHROPIC_API_KEY"): "absent", "empty" or "set"
    client,        \* TRUE once anthropic.Anthropic(...) was constructed
    file,          \* the file system as read_file sees it
    conversation,  \* agent_loop's transcript
    user_input,    \* agent_loop's local: the stripped line last read
    llm_response,  \* content of the response being rendered
    block_idx,     \* position of the for loop over llm_response.content
    result,        \* agent_loop's local: last value returned by execute_tool
    console,       \* panels printed so far
    request,       \* keyword arguments of the last llm.call
    prompts,       \* number of input() calls so far
    llm_calls,     \* number of llm.call invocations so far
    schema_calls,  \* number of generate_tool_schema invocations so far
    tool_calls,    \* number of invocations of a registered callable so far
    handled        \* blocks handled in the current turn: <<index, how>>

vars == <<pc, api_key, client, file, conversation, user_input, llm_response,
          block_idx, result, console, request, prompts, llm_calls,
          schema_calls, tool_calls, handled>>

-----------------------------------------------------------------------------
(* Bounds *)

\* input() calls in a session
MaxPrompts == 3

\* content blocks the API returns over a session
MaxBlocks == 3

-----------------------------------------------------------------------------
(* Program constants and static data *)

MAX_RESULT_LENGTH == 100

GOODBYE_MESSAGES ==
    << "Well, this has been... a use of my time. Fly away now.",
       "I've been alive for millennia. I will never get these minutes back.",
       "Leaving so soon? Oh wait, I don't care.",
       "Farewell. I have worlds to eat and you're not even an appetizer.",
       "Krosis. That means sorrow. I feel none. Goodbye.",
       "Bye. Try not to need me again.",
       "Leaving? Finally, something you're good at.",
       "You've been... brave. Not smart, but brave. Farewell.",
       "I am eternal. Which means I'll be here whenever you come back. Unfortunately." >>

\* the marker print_tool_result appends: "\n" then U+2026 then " (truncated)"
TRUNCATED_MARKER ==
    << "\n", "U+2026", " ", "(", "t", "r", "u", "n", "c", "a", "t", "e", "d", ")" >>

CREDENTIAL_ERROR == << "ANTHROPIC_API_KEY environment variable is not set." >>

None == "None"

Whitespace == { " ", "\t" }

-----------------------------------------------------------------------------
(* Inputs *)

\* lines the operator may type (what input() returns)
Lines ==
    { << >>,
      << " " >>,
      << "\t", " " >>,
      << "h", " ", "i" >>,
      << " ", "h", " ", "i", "\t" >> }

\* the characters of file contents, by position
Chr(i) == << "a", "b", "c" >>[(i % 3) + 1]

Content(n) == [ i \in 1..n |-> Chr(i) ]

\* lengths of the file the tool may read, around MAX_RESULT_LENGTH
FileLengths == { MAX_RESULT_LENGTH - 1, MAX_RESULT_LENGTH, MAX_RESULT_LENGTH + 1 }

Files ==
    { [exists |-> FALSE, content |-> << >>] }
        \cup { [exists |-> TRUE, content |-> Content(n)] : n \in FileLengths }

\* content blocks the API may return
TextBlock == [type |-> "text", text |-> << "o", "k" >>]

ToolUse(name, input) == [type |-> "tool_use", name |-> name, input |-> input]

BlockChoices ==
    { TextBlock,
      ToolUse("read_file", [path |-> "notes.txt"]),
      ToolUse("read_file", [file |-> "notes.txt"]),
      ToolUse("delete_universe", [path |-> "notes.txt"]),
      [type |-> "thinking"] }

Usage == [input_tokens |-> 12, output_tokens |-> 7]

RECURSIVE BlocksReturned(_)
BlocksReturned(conv) ==
    IF conv = << >> THEN 0
    ELSE LET m == conv[Len(conv)]
             rest == BlocksReturned(SubSeq(conv, 1, Len(conv) - 1))
         IN  IF m.role = "assistant" THEN Len(m.content) + rest ELSE rest

Responses(conv) ==
    UNION { [1..n -> BlockChoices] : n \in 0..(MaxBlocks - BlocksReturned(conv)) }

-----------------------------------------------------------------------------
(* Pure functions *)

RECURSIVE lstrip(_)
lstrip(s) ==
    IF s # << >> /\ Head(s) \in Whitespace THEN lstrip(Tail(s)) ELSE s

RECURSIVE rstrip(_)
rstrip(s) ==
    IF s # << >> /\ s[Len(s)] \in Whitespace
    THEN rstrip(SubSeq(s, 1, Len(s) - 1))
    ELSE s

\* the line taken as typed, .strip() forgotten
strip_missing(s) == s

\* str.strip()
strip(s) == rstrip(lstrip(s))

\* truncation from MAX_RESULT_LENGTH characters on, not from above it
display_off_by_one(res) ==
    IF Len(res) < MAX_RESULT_LENGTH
    THEN res
    ELSE SubSeq(res, 1, MAX_RESULT_LENGTH) \o TRUNCATED_MARKER

\* ui.print_tool_result: the text shown in the panel
display(res) ==
    IF Len(res) <= MAX_RESULT_LENGTH
    THEN res
    ELSE SubSeq(res, 1, MAX_RESULT_LENGTH) \o TRUNCATED_MARKER

print_tool_result(name, res) ==
    [kind |-> "tool_result", name |-> name, text |-> display(res)]

print_tool_error(name, error) ==
    [kind |-> "tool_error", name |-> name, text |-> error]

print_tool_request(name, args) ==
    [kind |-> "tool_request", name |-> name, args |-> args]

print_user_message(text) == [kind |-> "user", text |-> text]

print_assistant_reply(text, input_tokens, output_tokens) ==
    [kind |-> "assistant", text |-> text,
     input_tokens |-> input_tokens, output_tokens |-> output_tokens]

print_error(message) == [kind |-> "error", text |-> message]

print_banner == [kind |-> "banner"]

print_goodbye(i) == [kind |-> "goodbye", text |-> << GOODBYE_MESSAGES[i] >>]

\* tool.read_file(path): the contents, or a raised exception
read_file(path, f) ==
    IF f.exists
    THEN [raised |-> FALSE, value |-> f.content]
    ELSE [raised |-> TRUE,
          value |-> << "[Errno 2] No such file or directory: '", path, "'" >>]

\* tool_fn(**args): binding the keywords to read_file's one parameter
invoke(tool_fn, args, f) ==
    IF DOMAIN args = { "path" }
    THEN read_file(args.path, f)
    ELSE [raised |-> TRUE,
          value |-> << "read_file() got an unexpected keyword argument" >>]

active_tools == << "read_file" >>

\* {t.__name__: t for t in active_tools}
tools_lookup == [ n \in { active_tools[i] : i \in DOMAIN active_tools } |-> n ]

\* a lookup that falls back to a registered callable
get_default(table, key) ==
    IF key \in DOMAIN table THEN table[key] ELSE table[CHOOSE k \in DOMAIN table : TRUE]

\* dict.get
get(table, key) == IF key \in DOMAIN table THEN table[key] ELSE None

\* schema_converter.generate_tool_schema(active_tools)
generate_tool_schema(tools) ==
    [ i \in DOMAIN tools |->
        [name |-> tools[i], required |-> { "path" }] ]

system_prompt == "system prompt"

\* execute_tool without the except clause: the callable's exception leaves it
execute_tool_uncaught(name_of_tool_to_execute, tools_lookup_table, args, f) ==
    LET tool_fn == get(tools_lookup_table, name_of_tool_to_execute)
    IN  IF tool_fn = None
        THEN LET error_msg == << "Error: unknown tool ", name_of_tool_to_execute >>
             IN  [ret |-> error_msg,
                  panels |-> << print_tool_error(name_of_tool_to_execute, error_msg) >>,
                  invoked |-> 0,
                  raised |-> FALSE]
        ELSE LET out == invoke(tool_fn, args, f)
                 requested == print_tool_request(name_of_tool_to_execute, args)
             IN  IF ~out.raised
                 THEN [ret |-> out.value,
                       panels |-> << requested,
                                     print_tool_result(name_of_tool_to_execute, out.value) >>,
                       invoked |-> 1,
                       raised |-> FALSE]
                 ELSE [ret |-> out.value,
                       panels |-> << requested >>,
                       invoked |-> 1,
                       raised |-> TRUE]

\* main.execute_tool: the value returned, the panels printed, the number of
\* callables invoked, and whether an exception leaves the function
execute_tool(name_of_tool_to_execute, tools_lookup_table, args, f) ==
    LET tool_fn == get(tools_lookup_table, name_of_tool_to_execute)
    IN  IF tool_fn = None
        THEN LET error_msg == << "Error: unknown tool ", name_of_tool_to_execute >>
             IN  [ret |-> error_msg,
                  panels |-> << print_tool_error(name_of_tool_to_execute, error_msg) >>,
                  invoked |-> 0,
                  raised |-> FALSE]
        ELSE LET out == invoke(tool_fn, args, f)
                 requested == print_tool_request(name_of_tool_to_execute, args)
             IN  IF ~out.raised
                 THEN [ret |-> out.value,
                       panels |-> << requested,
                                     print_tool_result(name_of_tool_to_execute, out.value) >>,
                       invoked |-> 1,
                       raised |-> FALSE]
                 ELSE LET error_msg ==
                              << "Error: callling tool ", name_of_tool_to_execute, "\n" >>
                                  \o out.value
                      IN  [ret |-> error_msg,
                           panels |-> << requested,
                                         print_tool_error(name_of_tool_to_execute, error_msg) >>,
                           invoked |-> 1,
                           raised |-> FALSE]

\* the list rebound to the one new item
append_replace(list, item) == << item >>

\* list.append
append(list, item) == Append(list, item)

\* the for loop left after its first iteration
after_block_break(idx, content) == "prompt"

\* the for loop over llm_response.content: back to the prompt after the last
\* block
after_block(idx, content) == IF idx >= Len(content) THEN "prompt" ELSE "rendering"

-----------------------------------------------------------------------------
(* The process *)

Init ==
    /\ pc = "startup"
    /\ api_key \in { "absent", "empty", "set" }
    /\ client = FALSE
    /\ file \in Files
    /\ conversation = << >>
    /\ user_input = << >>
    /\ llm_response = << >>
    /\ block_idx = 0
    /\ result = << >>
    /\ console = << >>
    /\ request = None
    /\ prompts = 0
    /\ llm_calls = 0
    /\ schema_calls = 0
    /\ tool_calls = 0
    /\ handled = << >>

\* main() without the return after the error panel
main_no_return ==
    /\ pc = "startup"
    /\ IF api_key # "set"
       THEN console' = << print_banner, print_error(CREDENTIAL_ERROR) >>
       ELSE console' = << print_banner >>
    /\ client' = TRUE
    /\ pc' = "prompt"
    /\ UNCHANGED <<api_key, file, conversation, user_input, llm_response,
                   block_idx, result, request, prompts, llm_calls,
                   schema_calls, tool_calls, handled>>

\* main(): banner, credential check, client construction, entry to agent_loop
main ==
    /\ pc = "startup"
    /\ IF api_key # "set"
       THEN /\ console' = << print_banner, print_error(CREDENTIAL_ERROR) >>
            /\ pc' = "terminated_error"
            /\ UNCHANGED client
       ELSE /\ console' = << print_banner >>
            /\ client' = TRUE
            /\ pc' = "prompt"
    /\ UNCHANGED <<api_key, file, conversation, user_input, llm_response,
                   block_idx, result, request, prompts, llm_calls,
                   schema_calls, tool_calls, handled>>

\* agent_loop: input() returns a line
read_line(line) ==
    /\ pc = "prompt"
    /\ prompts < MaxPrompts
    /\ prompts' = prompts + 1
    /\ user_input' = strip(line)
    /\ IF user_input' = << >>
       THEN UNCHANGED <<pc, conversation, console>>
       ELSE /\ conversation' =
                   append(conversation, [role |-> "user", content |-> user_input'])
            /\ console' = Append(console, print_user_message(user_input'))
            /\ pc' = "calling_llm"
    /\ UNCHANGED <<api_key, client, file, llm_response, block_idx, result,
                   request, llm_calls, schema_calls, tool_calls, handled>>

\* the except clause ending in continue, not return
read_interrupt_continue ==
    /\ pc = "prompt"
    /\ prompts < MaxPrompts
    /\ prompts' = prompts + 1
    /\ \E i \in DOMAIN GOODBYE_MESSAGES : console' = Append(console, print_goodbye(i))
    /\ UNCHANGED <<pc, api_key, client, file, conversation, user_input,
                   llm_response, block_idx, result, request, llm_calls,
                   schema_calls, tool_calls, handled>>

\* agent_loop: input() raises KeyboardInterrupt or EOFError
read_interrupt ==
    /\ pc = "prompt"
    /\ prompts' = prompts + 1
    /\ \E i \in DOMAIN GOODBYE_MESSAGES : console' = Append(console, print_goodbye(i))
    /\ pc' = "done"
    /\ UNCHANGED <<api_key, client, file, conversation, user_input,
                   llm_response, block_idx, result, request, llm_calls,
                   schema_calls, tool_calls, handled>>

\* the keyword arguments agent_loop passes to llm.call
llm_request(conv) ==
    [system_prompt |-> system_prompt,
     messages |-> conv,
     tool_schemas |-> generate_tool_schema(active_tools)]

\* llm.call passed a payload built before the loop
llm_return_schema_once(content) ==
    /\ pc = "calling_llm"
    /\ request' = llm_request(conversation)
    /\ llm_calls' = llm_calls + 1
    /\ conversation' =
           append(conversation, [role |-> "assistant", content |-> content])
    /\ llm_response' = content
    /\ block_idx' = 1
    /\ handled' = << >>
    /\ pc' = after_block(0, content)
    /\ UNCHANGED <<api_key, client, file, user_input, result, console,
                   prompts, tool_calls, schema_calls>>

\* agent_loop: llm.call returns a response
llm_return(content) ==
    /\ pc = "calling_llm"
    /\ request' = llm_request(conversation)
    /\ schema_calls' = schema_calls + 1
    /\ llm_calls' = llm_calls + 1
    /\ conversation' =
           append(conversation, [role |-> "assistant", content |-> content])
    /\ llm_response' = content
    /\ block_idx' = 1
    /\ handled' = << >>
    /\ pc' = after_block(0, content)
    /\ UNCHANGED <<api_key, client, file, user_input, result, console,
                   prompts, tool_calls>>

\* agent_loop: llm.call raises; nothing catches it
llm_raise ==
    /\ pc = "calling_llm"
    /\ request' = llm_request(conversation)
    /\ schema_calls' = schema_calls + 1
    /\ llm_calls' = llm_calls + 1
    /\ pc' = "crashed"
    /\ UNCHANGED <<api_key, client, file, conversation, user_input,
                   llm_response, block_idx, result, console, prompts,
                   tool_calls, handled>>

\* the for loop with each tool's return value appended to the transcript
process_block_feedback ==
    /\ pc = "rendering"
    /\ block_idx <= Len(llm_response)
    /\ LET block == llm_response[block_idx]
           r == execute_tool(block.name, tools_lookup, block.input, file)
       IN  CASE block.type = "text" ->
                  /\ console' = Append(console,
                         print_assistant_reply(block.text, Usage.input_tokens,
                                               Usage.output_tokens))
                  /\ handled' = Append(handled, <<block_idx, "rendered">>)
                  /\ UNCHANGED <<result, tool_calls, conversation>>
             [] block.type = "tool_use" ->
                  /\ console' = console \o r.panels
                  /\ result' = r.ret
                  /\ tool_calls' = tool_calls + r.invoked
                  /\ handled' = Append(handled, <<block_idx, "dispatched">>)
                  /\ conversation' =
                         append(conversation, [role |-> "user", content |-> r.ret])
             [] OTHER ->
                  /\ handled' = Append(handled, <<block_idx, "ignored">>)
                  /\ UNCHANGED <<console, result, tool_calls, conversation>>
    /\ pc' = after_block(block_idx, llm_response)
    /\ block_idx' = block_idx + 1
    /\ UNCHANGED <<api_key, client, file, user_input,
                   llm_response, request, prompts, llm_calls, schema_calls>>

\* agent_loop: one iteration of the for loop over llm_response.content
process_block ==
    /\ pc = "rendering"
    /\ block_idx <= Len(llm_response)
    /\ LET block == llm_response[block_idx]
           r == execute_tool(block.name, tools_lookup, block.input, file)
       IN  CASE block.type = "text" ->
                  /\ console' = Append(console,
                         print_assistant_reply(block.text, Usage.input_tokens,
                                               Usage.output_tokens))
                  /\ handled' = Append(handled, <<block_idx, "rendered">>)
                  /\ pc' = after_block(block_idx, llm_response)
                  /\ UNCHANGED <<result, tool_calls>>
             [] block.type = "tool_use" /\ ~r.raised ->
                  /\ console' = console \o r.panels
                  /\ result' = r.ret
                  /\ tool_calls' = tool_calls + r.invoked
                  /\ handled' = Append(handled, <<block_idx, "dispatched">>)
                  /\ pc' = after_block(block_idx, llm_response)
             [] block.type = "tool_use" /\ r.raised ->
                  /\ console' = console \o r.panels
                  /\ tool_calls' = tool_calls + r.invoked
                  /\ handled' = Append(handled, <<block_idx, "dispatched">>)
                  /\ pc' = "crashed"
                  /\ UNCHANGED result
             [] OTHER ->
                  /\ handled' = Append(handled, <<block_idx, "ignored">>)
                  /\ pc' = after_block(block_idx, llm_response)
                  /\ UNCHANGED <<console, result, tool_calls>>
    /\ block_idx' = block_idx + 1
    /\ UNCHANGED <<api_key, client, file, conversation, user_input,
                   llm_response, request, prompts, llm_calls, schema_calls>>

Next ==
    \/ main
    \/ \E line \in Lines : read_line(line)
    \/ read_interrupt
    \/ \E content \in Responses(conversation) : llm_return(content)
    \/ llm_raise
    \/ process_block

Spec == Init /\ [][Next]_vars

-----------------------------------------------------------------------------
(* Auxiliary operators of the properties *)

IsPrefix(s, t) == Len(s) <= Len(t) /\ SubSeq(t, 1, Len(s)) = s

AllWhitespace(line) == \A i \in DOMAIN line : line[i] \in Whitespace

PanelsOf(kind) == { i \in DOMAIN console : console[i].kind = kind }

MessagesOf(role) == { i \in DOMAIN conversation : conversation[i].role = role }

InLoop == pc \in { "prompt", "calling_llm", "rendering", "done", "crashed" }

\* the block the for loop is at, when it is a tool_use block
AtToolUse ==
    /\ pc = "rendering"
    /\ block_idx \in DOMAIN llm_response
    /\ llm_response[block_idx].type = "tool_use"

-----------------------------------------------------------------------------
(* C1 *)

\* C1: a step that reads an empty or whitespace-only line appends nothing to
\* the transcript, makes no LLM call, prints nothing and stays at the prompt.
C1_EmptyInputNoOp ==
    [][ \A line \in Lines :
          (AllWhitespace(line) /\ read_line(line)) =>
              /\ conversation' = conversation
              /\ llm_calls' = llm_calls
              /\ schema_calls' = schema_calls
              /\ console' = console
              /\ tool_calls' = tool_calls
              /\ pc' = "prompt" ]_vars

\* an empty line was read after a complete turn, and the prompt is shown again
C1_Witness ==
    /\ pc = "prompt"
    /\ user_input = << >>
    /\ prompts = 2
    /\ Len(conversation) = 2
    /\ llm_calls = 1

-----------------------------------------------------------------------------
(* C2 *)

\* C2: the transcript's roles alternate user, assistant, ...; whenever the
\* prompt is shown after N completed turns (N user panels printed, N LLM calls
\* returned) it holds exactly 2N messages; it only grows by appending.
C2_TurnOrdering ==
    /\ [](/\ \A i \in DOMAIN conversation :
                conversation[i].role = IF i % 2 = 1 THEN "user" ELSE "assistant"
          /\ pc = "prompt" =>
                /\ Len(conversation) = 2 * Cardinality(PanelsOf("user"))
                /\ Len(conversation) = 2 * llm_calls)
    /\ [][IsPrefix(conversation, conversation')]_vars

\* two turns without tool calls were completed
C2_Witness ==
    /\ pc = "prompt"
    /\ Len(conversation) = 4
    /\ tool_calls = 0
    /\ PanelsOf("tool_error") = {}
    /\ \A i \in { 2, 4 } : \A j \in DOMAIN conversation[i].content :
           conversation[i].content[j].type # "tool_use"
    /\ conversation[2].content # << >>

-----------------------------------------------------------------------------
(* C3 *)

\* C3: dispatching a tool_use block whose name is not in the lookup table
\* prints exactly one tool-error panel, returns <<"Error: unknown tool ", name>>,
\* invokes no callable and prints no tool-request or tool-result panel.
C3_UnknownTool ==
    [][ (AtToolUse /\ llm_response[block_idx].name \notin { "read_file" }) =>
          LET name == llm_response[block_idx].name
              msg == << "Error: unknown tool ", name >>
          IN  /\ console' = Append(console,
                      [kind |-> "tool_error", name |-> name, text |-> msg])
              /\ result' = msg
              /\ tool_calls' = tool_calls
              /\ pc' # "crashed" ]_vars

\* an unknown tool was dispatched
C3_Witness ==
    /\ result = << "Error: unknown tool ", "delete_universe" >>
    /\ console[Len(console)].kind = "tool_error"
    /\ handled # << >>
    /\ handled[Len(handled)][2] = "dispatched"
    /\ tool_calls = 0

-----------------------------------------------------------------------------
(* C4 *)

\* the known tool at the for loop's position raises when invoked
ToolRaises ==
    /\ AtToolUse
    /\ llm_response[block_idx].name = "read_file"
    /\ \/ ~file.exists
       \/ DOMAIN llm_response[block_idx].input # { "path" }

\* C4: when a known tool's callable raises, the step prints the tool-request
\* panel and then a tool-error panel, returns "Error: callling tool {name}\n"
\* followed by the exception's text, and the loop goes on: to the next block,
\* or to the prompt after the last one.
C4_ToolErrorRecovered ==
    /\ [][ ToolRaises =>
             LET block == llm_response[block_idx]
                 detail == IF DOMAIN block.input = { "path" }
                           THEN << "[Errno 2] No such file or directory: '",
                                   block.input.path, "'" >>
                           ELSE << "read_file() got an unexpected keyword argument" >>
                 msg == << "Error: callling tool ", block.name, "\n" >> \o detail
             IN  /\ console' = console \o
                        << [kind |-> "tool_request", name |-> block.name,
                            args |-> block.input],
                           [kind |-> "tool_error", name |-> block.name,
                            text |-> msg] >>
                 /\ result' = msg
                 /\ tool_calls' = tool_calls + 1
                 /\ block_idx' = block_idx + 1
                 /\ pc' = IF block_idx < Len(llm_response)
                          THEN "rendering" ELSE "prompt" ]_vars
    /\ [](pc = "rendering" => block_idx \in DOMAIN llm_response)
    /\ [][pc = "rendering" => pc' \in { "rendering", "prompt" }]_vars

\* a tool raised on the first block, the remaining block was handled and the
\* prompt is shown again
C4_Witness ==
    /\ pc = "prompt"
    /\ ~file.exists
    /\ Len(llm_response) = 2
    /\ llm_response[1] = ToolUse("read_file", [path |-> "notes.txt"])
    /\ llm_response[2].type = "text"
    /\ handled = << <<1, "dispatched">>, <<2, "rendered">> >>
    /\ console[Len(console)].kind = "assistant"
    /\ console[Len(console) - 1].kind = "tool_error"

-----------------------------------------------------------------------------
(* C5 *)

\* C5: with ANTHROPIC_API_KEY absent, main prints the banner and then the
\* error "ANTHROPIC_API_KEY environment variable is not set." and ends: no
\* client is constructed, no input is read, no LLM call is made.  The input
\* loop is only reached with a credential read and the client constructed.
C5_CredentialGate ==
    /\ (api_key = "absent" /\ pc # "startup") =>
          /\ pc = "terminated_error"
          /\ console =
                << [kind |-> "banner"],
                   [kind |-> "error",
                    text |-> << "ANTHROPIC_API_KEY environment variable is not set." >>] >>
          /\ ~client
          /\ prompts = 0
          /\ llm_calls = 0
          /\ conversation = << >>
    /\ InLoop => (api_key = "set" /\ client)

\* main ended on the missing credential
C5_Witness ==
    /\ pc = "terminated_error"
    /\ api_key = "absent"
    /\ console[Len(console)].kind = "error"

-----------------------------------------------------------------------------
(* C6 *)

\* C6: an interrupt or end-of-input at the prompt prints one goodbye message
\* of GOODBYE_MESSAGES, leaves the transcript and the LLM call count as they
\* are and ends the loop by returning; a session prints a goodbye only when it
\* ends so, exactly once, and takes no step afterwards.
C6_CleanExit ==
    /\ [][ (pc = "prompt" /\ PanelsOf("goodbye")' # {}) =>
             /\ pc' = "done"
             /\ conversation' = conversation
             /\ llm_calls' = llm_calls
             /\ schema_calls' = schema_calls
             /\ tool_calls' = tool_calls
             /\ \E i \in 1..9 :
                   console' = Append(console,
                       [kind |-> "goodbye", text |-> << GOODBYE_MESSAGES[i] >>]) ]_vars
    /\ [](pc = "done" <=> Cardinality(PanelsOf("goodbye")) = 1)
    /\ [](Cardinality(PanelsOf("goodbye")) <= 1)
    /\ [][pc # "done"]_vars

\* the operator interrupted the prompt after a complete turn
C6_Witness ==
    /\ pc = "done"
    /\ Len(conversation) = 2
    /\ console[Len(console)] =
           [kind |-> "goodbye", text |-> << "Bye. Try not to need me again." >>]

-----------------------------------------------------------------------------
(* C7 *)

\* the block handled last, when there is one
LastHandled == llm_response[handled[Len(handled)][1]]

\* C7: a tool-result panel shows a result of at most 100 characters as it is,
\* and a longer one as its first 100 characters followed by "\n", U+2026 and
\* " (truncated)"; execute_tool returns the whole result.
C7_Truncation ==
    /\ \A i \in PanelsOf("tool_result") :
          LET shown == console[i].text
              whole == file.content
          IN  /\ file.exists
              /\ Len(whole) <= 100 => shown = whole
              /\ Len(whole) > 100 =>
                    /\ Len(shown) = 114
                    /\ SubSeq(shown, 1, 100) = SubSeq(whole, 1, 100)
                    /\ SubSeq(shown, 101, 114) =
                          << "\n", "U+2026", " ", "(", "t", "r", "u", "n", "c",
                             "a", "t", "e", "d", ")" >>
    /\ ( /\ handled # << >>
         /\ LastHandled = ToolUse("read_file", [path |-> "notes.txt"])
         /\ file.exists ) => result = file.content

\* a result of 101 characters was shown truncated and returned whole
C7_Witness ==
    /\ Len(file.content) = 101
    /\ handled # << >>
    /\ LastHandled = ToolUse("read_file", [path |-> "notes.txt"])
    /\ console[Len(console)].kind = "tool_result"
    /\ Len(console[Len(console)].text) = 114
    /\ Len(result) = 101

-----------------------------------------------------------------------------
(* C8 *)

\* C8 as stated: generate_tool_schema has run exactly once by the time the
\* first prompt is shown, and never again.
C8_SchemaBuiltOnceAtStartup == InLoop => schema_calls = 1

\* C8, amended: generate_tool_schema runs once per LLM call, not before the
\* first prompt, and every LLM call is passed the same one-descriptor payload.
C8_SchemaBuiltPerCall ==
    /\ schema_calls = llm_calls
    /\ (pc = "prompt" /\ conversation = << >>) => schema_calls = 0
    /\ llm_calls > 0 =>
          request.tool_schemas = << [name |-> "read_file", required |-> { "path" }] >>

\* two turns were completed and the schema was generated twice
C8_Witness ==
    /\ pc = "prompt"
    /\ llm_calls = 2
    /\ schema_calls = 2

-----------------------------------------------------------------------------
(* C9 *)

\* how the loop is to handle a block
HowFor(block) ==
    CASE block.type = "text" -> "rendered"
      [] block.type = "tool_use" -> "dispatched"
      [] OTHER -> "ignored"

\* the panels printed since the last user panel that close the handling of a
\* block: an assistant reply, a tool result or a tool error
RECURSIVE ClosingPanels(_)
ClosingPanels(panels) ==
    IF panels = << >> \/ panels[Len(panels)].kind = "user" THEN << >>
    ELSE LET p == panels[Len(panels)]
             before == ClosingPanels(SubSeq(panels, 1, Len(panels) - 1))
         IN  IF p.kind \in { "assistant", "tool_result", "tool_error" }
             THEN Append(before, p)
             ELSE before

RECURSIVE Handled(_)
Handled(blocks) ==
    IF blocks = << >> THEN << >>
    ELSE LET b == blocks[Len(blocks)]
             before == Handled(SubSeq(blocks, 1, Len(blocks) - 1))
         IN  IF b.type \in { "text", "tool_use" } THEN Append(before, b) ELSE before

\* C9: a turn appends the user message, makes one LLM call, appends the
\* assistant message and handles every block of the response in response
\* order (text rendered, tool_use dispatched, other kinds ignored) before the
\* prompt is shown again; tools run only while the response is rendered.
C9_SequentialTurns ==
    /\ [](pc \in { "prompt", "rendering" } =>
            /\ llm_calls = Cardinality(MessagesOf("user"))
            /\ llm_calls = Cardinality(MessagesOf("assistant"))
            /\ llm_calls = Cardinality(PanelsOf("user"))
            /\ conversation # << >> =>
                  LET content == conversation[Len(conversation)].content
                      n == IF pc = "prompt" THEN Len(content) ELSE block_idx - 1
                      closing == ClosingPanels(console)
                      done == Handled(SubSeq(content, 1, n))
                  IN  /\ Len(handled) = n
                      /\ \A i \in 1..n :
                            handled[i] = << i, HowFor(content[i]) >>
                      /\ Len(closing) = Len(done)
                      /\ \A i \in DOMAIN done :
                            IF done[i].type = "text"
                            THEN /\ closing[i].kind = "assistant"
                                 /\ closing[i].text = done[i].text
                            ELSE /\ closing[i].kind \in { "tool_result", "tool_error" }
                                 /\ closing[i].name = done[i].name)
    /\ [][tool_calls' # tool_calls => (pc = "rendering" /\ prompts' = prompts)]_vars
    /\ [][llm_calls' # llm_calls =>
             (pc = "calling_llm" /\ llm_calls' = llm_calls + 1)]_vars
    /\ [][prompts' # prompts => pc = "prompt"]_vars

\* a response of three blocks of three kinds was handled in order
C9_Witness ==
    /\ pc = "prompt"
    /\ Len(llm_response) = 3
    /\ llm_response[1].type = "tool_use"
    /\ llm_response[2].type = "thinking"
    /\ llm_response[3].type = "text"
    /\ handled = << <<1, "dispatched">>, <<2, "ignored">>, <<3, "rendered">> >>

-----------------------------------------------------------------------------
(* C10 *)

\* C10: rendering a response, tool dispatches included, leaves the transcript
\* as it is, so a turn adds two messages whatever its tool_use blocks, and the
\* k-th LLM call is passed the k user messages and k - 1 assistant messages
\* and nothing else.
C10_NoToolFeedback ==
    /\ [][pc = "rendering" => conversation' = conversation]_vars
    /\ [](pc = "prompt" => Len(conversation) = 2 * Cardinality(PanelsOf("user")))
    /\ [](llm_calls > 0 =>
            /\ Len(request.messages) = 2 * llm_calls - 1
            /\ \A i \in DOMAIN request.messages :
                  /\ request.messages[i].role \in { "user", "assistant" }
                  /\ request.messages[i].role = "user" <=> i % 2 = 1
            /\ IsPrefix(request.messages, conversation))

\* a turn dispatched tools on every path and the next LLM call was made
C10_Witness ==
    /\ llm_calls = 2
    /\ tool_calls = 1
    /\ Len(request.messages) = 3
    /\ Len(request.messages[2].content) = 2
    /\ request.messages[2].content[1] = ToolUse("delete_universe", [path |-> "notes.txt"])
    /\ request.messages[2].content[2] = ToolUse("read_file", [path |-> "notes.txt"])

====
